---- MODULE Spec2Model ----
(***************************************************************************)
(* Model of src/app.py: a Streamlit page that lets the user pick one of    *)
(* four expert personas, type a question and get an answer from the        *)
(* OpenAI chat-completion endpoint.                                        *)
(*                                                                         *)
(* Streamlit runs the script top to bottom once at start and again after   *)
(* every widget interaction.  Widget values (the radio and the text area)  *)
(* survive between runs; everything the script rendered and every script   *)
(* local is rebuilt by the next run.  The model follows one browser        *)
(* session; pc is the position of the script run:                          *)
(*   Start             the process was started, nothing has run yet        *)
(*   Stopped           st.stop() at line 17 ended the run                  *)
(*   Idle              a run reached the end of the script; the page waits *)
(*   Validating        st.button returned True (line 91), line 92 is next  *)
(*   AwaitingResponse  client.chat.completions.create is blocked (line 63) *)
(*   Returned          get_llm_response has returned (line 98)             *)
(*   Rendered          lines 101-102 have rendered the answer              *)
(*                                                                         *)
(* TLA+ strings are ASCII, so the Japanese literals of the source are      *)
(* written as ASCII glosses; each gloss names the literal it stands for.   *)
(* A Python str the code only compares, stores or passes on is a TLA+      *)
(* string; the question text, whose emptiness the code tests, is a         *)
(* sequence of characters.                                                 *)
(***************************************************************************)
EXTENDS Naturals, Sequences, FiniteSets

VARIABLES
    api_key,                \* line 12: os.getenv("OPENAI_API_KEY")
    pc,                     \* position of the script run
    expert_roles,           \* line 40: the dict, as its ordered <<key, value>> items
    selected_expert,        \* line 81: value of the radio widget
    user_question,          \* line 88: value of the text area
    button,                 \* line 91: what st.button returned in the latest run
    ui,                     \* elements the latest run rendered, in order
    network,                \* requests sent to the endpoint and not yet answered
    system_message_for_llm, \* line 95
    outcome,                \* what the endpoint did with the request of this run
    llm_answer,             \* line 98
    sent,                   \* history: requests sent since the button was pressed
    returned,               \* history: results get_llm_response handed back since then
    memo                    \* history: one earlier call of get_llm_response

vars == <<api_key, pc, expert_roles, selected_expert, user_question, button, ui,
          network, system_message_for_llm, outcome, llm_answer, sent, returned, memo>>

-----------------------------------------------------------------------------
(* Bounds of the model *)

\* longest question the user types
MaxQuestionLen == 1
\* most choices a response of the endpoint carries
MaxChoices == 2

-----------------------------------------------------------------------------
(* Values *)

\* Python's None, kept apart from every str of the model
None == "<None>"

\* bool(s) of an Optional[str] held as a TLA+ string (line 15: not api_key)
\* (variant: the test `api_key is not None`, which lets the empty string pass)
truthyNotNone(s) == s # None

truthy(s) == s # None /\ s # ""

\* bool(s) of a str held as a sequence of characters (line 92: if user_question)
\* (variant: the test left out)
nonemptyAlways(s) == TRUE

nonempty(s) == Len(s) > 0

\* characters the user types: one whitespace character, one other
Chars == {" ", "a"}

\* str.isspace-style: no character other than whitespace (true of "" as well)
IsBlank(s) == \A i \in 1..Len(s) : s[i] = " "

Range(s) == {s[i] : i \in 1..Len(s)}

SeqsUpTo(S, n) == UNION {[1..k -> S] : k \in 0..n}

Questions == SeqsUpTo(Chars, MaxQuestionLen)

\* values OPENAI_API_KEY can have when the process starts: unset, empty, set
ApiKeys == {None, "", "sk-test"}

\* line 40-45: the literal assigned to expert_roles.  Glosses:
\*   "IT consultant"    for the key "ITコンサルタント"
\*   "Cooking expert"   for the key "料理研究家"
\*   "Historian"        for the key "歴史学者"
\*   "Career advisor"   for the key "キャリアアドバイザー"
\* and each value for the instruction text of its line.
ExpertRolesLiteral ==
    << <<"IT consultant", "You are an IT consultant.">>,
       <<"Cooking expert", "You are a cooking expert.">>,
       <<"Historian", "You are a historian.">>,
       <<"Career advisor", "You are a career advisor.">> >>

\* list(d.keys()): the keys in insertion order
keys(d) == [i \in 1..Len(d) |-> d[i][1]]

KeySet(d) == {d[i][1] : i \in 1..Len(d)}

\* d[k] of a dict; the caller has checked k \in KeySet(d) (KeyError otherwise)
getitem(d, k) == d[CHOOSE i \in 1..Len(d) : d[i][1] = k][2]

\* line 83: the options handed to st.radio
\* (variant: an option the catalog does not hold)
RadioOptionsWithExtra(d) == Append(keys(d), "Lawyer")

RadioOptions(d) == keys(d)

\* line 84: index=0
RadioDefault(options) == options[1]

-----------------------------------------------------------------------------
(* The endpoint *)

\* exceptions client.chat.completions.create raises (all subclasses of Exception)
ApiErrors == {"APIConnectionError", "AuthenticationError"}

\* message.content of one choice: text, or None (e.g. a refusal or tool call)
Contents == {None, "Hello, adventurer."}

\* what the endpoint does with a request: it raises, or it returns a response
\* whose choices are given by their message.content
Outcomes ==
    [kind : {"raise"}, error : ApiErrors, choices : {<<>>}]
    \cup [kind : {"response"}, error : {None}, choices : SeqsUpTo(Contents, MaxChoices)]

NoOutcome == [kind |-> "none", error |-> None, choices |-> <<>>]

\* lines 65-68: the messages list of the request
\* (variant: the two entries in the other order)
MessagesSwapped(user_input, expert_system_message) ==
    << [role |-> "user", content |-> user_input],
       [role |-> "system", content |-> <<expert_system_message>>] >>

\* (variant: the messages of an earlier call are kept and sent again, as a
\* chat with multi-turn memory would)
MessagesWithHistory(user_input, expert_system_message) ==
    (IF memo = {} THEN <<>> ELSE (CHOOSE m \in memo : TRUE).request.messages)
    \o << [role |-> "system", content |-> <<expert_system_message>>],
          [role |-> "user", content |-> user_input] >>

\* the content of the system message is a str, held as a one-element sequence
\* so that both contents are sequences of strings
Messages(user_input, expert_system_message) ==
    << [role |-> "system", content |-> <<expert_system_message>>],
       [role |-> "user", content |-> user_input] >>

\* lines 63-71: the request
Request(user_input, expert_system_message) ==
    [model |-> "gpt-3.5-turbo",
     messages |-> Messages(user_input, expert_system_message),
     temperature_x10 |-> 7,
     max_tokens |-> 500]

\* line 76
FailureString == "Failed to get the answer."

\* the exception lines 63-73 end with, or None: what create raised, or the
\* IndexError of choices[0] on a response without choices
Raised(o) ==
    IF o.kind = "raise" THEN o.error
    ELSE IF Len(o.choices) = 0 THEN "IndexError: list index out of range"
    ELSE None

\* lines 60-76: the value get_llm_response returns
\* (variant: choices[-1] instead of choices[0])
ResultLastChoice(o) ==
    IF Raised(o) # None THEN FailureString ELSE o.choices[Len(o.choices)]

Result(o) ==
    IF Raised(o) # None THEN FailureString ELSE o.choices[1]

-----------------------------------------------------------------------------
(* Rendered elements: <<kind, parts>>, parts the pieces of the text *)

\* line 16
KeyMissingError == <<"error", <<"The OpenAI API key is not set.">>>>

\* lines 25-35, 81-91: what every run that passes line 17 renders
Form(d) ==
    << <<"title", <<"Expert chat app">>>>,
       <<"radio", RadioOptions(d)>>,
       <<"text_area", <<"Enter your question here:">>>>,
       <<"button", <<"Generate answer">>>> >>

\* line 93
Spinner == <<"spinner", <<"The expert is thinking...">>>>

\* line 75: the f-string with the exception
LlmError(e) == <<"error", <<"An error occurred while getting the answer: ", e>>>>

\* line 101: the f-string with the persona
Subheader(e) == <<"subheader", <<"* ", e, " answers:">>>>

\* line 102
Written(text) == <<"write", <<text>>>>

\* line 104
Warning == <<"warning", <<"Please enter a question.">>>>

\* what Streamlit shows for an exception the script does not catch
Uncaught(e) == <<"exception", <<e>>>>

Shown(el) == \E i \in 1..Len(ui) : ui[i] = el

Remove(s, el) == SelectSeq(s, LAMBDA x : x # el)

-----------------------------------------------------------------------------
(* The script *)

Init ==
    /\ api_key \in ApiKeys
    /\ pc = "Start"
    /\ expert_roles = <<>>
    /\ selected_expert = None
    /\ user_question = <<>>
    /\ button = FALSE
    /\ ui = <<>>
    /\ network = <<>>
    /\ system_message_for_llm = None
    /\ outcome = NoOutcome
    /\ llm_answer = None
    /\ sent = 0
    /\ returned = 0
    /\ memo = {}

\* the names of a run that has not reached lines 95 and 98
FreshLocals ==
    /\ system_message_for_llm' = None
    /\ outcome' = NoOutcome
    /\ llm_answer' = None

\* lines 15-17: the run ends at st.stop() with the error on the page
Halt ==
    /\ ui' = <<KeyMissingError>>
    /\ pc' = "Stopped"
    /\ button' = FALSE
    /\ UNCHANGED <<expert_roles, selected_expert, user_question>>

\* lines 12-91 of a run: the credential check, the catalog, the widgets with
\* the values `expert` and `question`, and st.button returning `pressed`
Run(expert, question, pressed) ==
    /\ FreshLocals
    /\ UNCHANGED <<api_key, network>>
    /\ IF ~truthy(api_key)
         THEN Halt
         ELSE /\ expert_roles' = ExpertRolesLiteral
              /\ selected_expert' = expert
              /\ user_question' = question
              /\ button' = pressed
              /\ ui' = Form(expert_roles')
              /\ pc' = IF pressed THEN "Validating" ELSE "Idle"

\* the first run of the session: the radio is at its default, the text area empty
RunScript ==
    /\ pc = "Start"
    /\ Run(RadioDefault(RadioOptions(ExpertRolesLiteral)), <<>>, FALSE)
    /\ UNCHANGED <<sent, returned>>

\* the options of the radio the page shows
ShownOptions == UNION {Range(ui[i][2]) : i \in {k \in 1..Len(ui) : ui[k][1] = "radio"}}

\* the user picks a persona: the widget changes and the script runs again
SelectExpert(e) ==
    /\ pc = "Idle"
    /\ e \in ShownOptions
    /\ e # selected_expert
    /\ Run(e, user_question, FALSE)
    /\ UNCHANGED <<sent, returned>>

\* the user edits the question: the widget changes and the script runs again
EnterQuestion(q) ==
    /\ pc = "Idle"
    /\ q # user_question
    /\ Run(selected_expert, q, FALSE)
    /\ UNCHANGED <<sent, returned>>

\* the user presses the button: the script runs again and line 91 is true
PressButton ==
    /\ pc = "Idle"
    /\ Run(selected_expert, user_question, TRUE)
    /\ sent' = 0
    /\ returned' = 0

\* lines 92-98 up to the call of create at line 63, or lines 103-104
Validate ==
    /\ pc = "Validating"
    /\ UNCHANGED <<api_key, expert_roles, selected_expert, user_question, button,
                   outcome, llm_answer, returned>>
    /\ IF nonempty(user_question)
         THEN IF selected_expert \in KeySet(expert_roles)
                THEN /\ system_message_for_llm' = getitem(expert_roles, selected_expert)
                     /\ network' = Append(network,
                                         Request(user_question, system_message_for_llm'))
                     /\ sent' = sent + 1
                     /\ ui' = Append(ui, Spinner)
                     /\ pc' = "AwaitingResponse"
                ELSE \* line 95 raises KeyError, nothing catches it, the run ends
                     /\ ui' = Append(ui, Uncaught("KeyError"))
                     /\ pc' = "Idle"
                     /\ UNCHANGED <<system_message_for_llm, network, sent>>
         ELSE /\ ui' = Append(ui, Warning)
              /\ pc' = "Idle"
              /\ UNCHANGED <<system_message_for_llm, network, sent>>

\* lines 74-75: what get_llm_response adds to the page
\* (variant: the exception is swallowed without st.error)
PageAfterCallSilent(page, o) == page

PageAfterCall(page, o) ==
    IF Raised(o) # None THEN Append(page, LlmError(Raised(o))) ELSE page

\* (variant of the step below: a failed call is sent once more)
GetLlmResponseRetries(o) ==
    /\ pc = "AwaitingResponse"
    /\ network # <<>>
    /\ outcome' = o
    /\ ui' = PageAfterCall(ui, o)
    /\ IF Raised(o) # None /\ sent < 2
         THEN /\ network' = Append(Tail(network), Head(network))
              /\ sent' = sent + 1
              /\ pc' = "AwaitingResponse"
              /\ UNCHANGED <<llm_answer, returned>>
         ELSE /\ network' = Tail(network)
              /\ llm_answer' = Result(o)
              /\ returned' = returned + 1
              /\ pc' = "Returned"
              /\ UNCHANGED sent
    /\ UNCHANGED <<api_key, expert_roles, selected_expert, user_question, button,
                   system_message_for_llm>>

\* lines 63-76 and 98: the endpoint answers the request with o and
\* get_llm_response returns
GetLlmResponseReturns(o) ==
    /\ pc = "AwaitingResponse"
    /\ network # <<>>
    /\ network' = Tail(network)
    /\ outcome' = o
    /\ llm_answer' = Result(o)
    /\ ui' = PageAfterCall(ui, o)
    /\ returned' = returned + 1
    /\ pc' = "Returned"
    /\ UNCHANGED <<api_key, expert_roles, selected_expert, user_question, button,
                   system_message_for_llm, sent>>

\* lines 101-102
Render ==
    /\ pc = "Returned"
    /\ ui' = ui \o <<Subheader(selected_expert), Written(llm_answer)>>
    /\ pc' = "Rendered"
    /\ UNCHANGED <<api_key, expert_roles, selected_expert, user_question, button,
                   network, system_message_for_llm, outcome, llm_answer, sent, returned>>

\* the with-block of line 93 is left (the spinner goes) and the run ends
Finish ==
    /\ pc = "Rendered"
    /\ ui' = Remove(ui, Spinner)
    /\ pc' = "Idle"
    /\ FreshLocals
    /\ UNCHANGED <<api_key, expert_roles, selected_expert, user_question, button,
                   network, sent, returned>>

\* history: the call that ends now, kept if no call is kept yet
Call(o) ==
    [user_input |-> user_question,
     expert_system_message |-> system_message_for_llm,
     request |-> Head(network),
     outcome |-> o,
     result |-> llm_answer']

Remember(o) == memo' \in {memo} \cup (IF memo = {} THEN {{Call(o)}} ELSE {})

\* personas a radio could offer: the catalog's, and one it does not hold
Personas == KeySet(ExpertRolesLiteral) \cup {"Lawyer"}

Next ==
    \/ RunScript /\ UNCHANGED memo
    \/ \E e \in Personas : SelectExpert(e) /\ UNCHANGED memo
    \/ \E q \in Questions : EnterQuestion(q) /\ UNCHANGED memo
    \/ PressButton /\ UNCHANGED memo
    \/ Validate /\ UNCHANGED memo
    \/ \E o \in Outcomes : GetLlmResponseReturns(o) /\ UNCHANGED memo
    \/ Render /\ UNCHANGED memo
    \/ Finish /\ UNCHANGED memo

Spec == Init /\ [][Next]_vars

\* the same steps, with one call of get_llm_response kept in memo
NextH ==
    \/ RunScript /\ UNCHANGED memo
    \/ \E e \in Personas : SelectExpert(e) /\ UNCHANGED memo
    \/ \E q \in Questions : EnterQuestion(q) /\ UNCHANGED memo
    \/ PressButton /\ UNCHANGED memo
    \/ Validate /\ UNCHANGED memo
    \/ \E o \in Outcomes : GetLlmResponseReturns(o) /\ Remember(o)
    \/ Render /\ UNCHANGED memo
    \/ Finish /\ UNCHANGED memo

SpecH == Init /\ [][NextH]_vars

\* A run of the script, once started, goes on to its end: the script thread is
\* not waiting for the user anywhere between lines 92 and 104, and the blocking
\* call of line 63 returns or raises (the client's transport has a timeout).
\* The user's own steps (editing a widget, pressing the button) are not forced.
FairSpec ==
    /\ Spec
    /\ WF_vars(RunScript /\ UNCHANGED memo)
    /\ WF_vars(Validate /\ UNCHANGED memo)
    /\ WF_vars(\E o \in Outcomes : GetLlmResponseReturns(o) /\ UNCHANGED memo)
    /\ WF_vars(Render /\ UNCHANGED memo)
    /\ WF_vars(Finish /\ UNCHANGED memo)

-----------------------------------------------------------------------------
(* Properties *)

\* how many elements of a kind the page holds
Count(kind) == Cardinality({i \in 1..Len(ui) : ui[i][1] = kind})

InRun == pc \in {"Validating", "AwaitingResponse", "Returned", "Rendered"}

\* C1: whenever the button was pressed with a question that is empty or only
\* whitespace, no request is sent to the endpoint and, once the run has ended,
\* the page shows the validation warning.
C1_BlankQuestionNeverCalls ==
    (button /\ IsBlank(user_question)) =>
        /\ network = <<>>
        /\ sent = 0
        /\ pc \in {"Validating", "Idle"}
        /\ (pc = "Idle" => Shown(Warning))

\* a failure of the remote call as C2 lists them: create raised, the response
\* has no choices, or its first choice carries no text content
Failed(o) ==
    \/ o.kind = "raise"
    \/ o.kind = "response" /\ Len(o.choices) = 0
    \/ o.kind = "response" /\ Len(o.choices) > 0 /\ o.choices[1] = None

\* C2: after every failure of the remote call, get_llm_response has returned
\* the fixed failure string (and the run goes on: nothing was propagated).
C2_FailureYieldsFailureString ==
    (pc \in {"Returned", "Rendered"} /\ Failed(outcome)) =>
        llm_answer = FailureString

\* C3: every request in flight carries exactly two messages: first the system
\* message with the instruction of the selected persona, second the user
\* message with the question as typed.
C3_TwoMessages ==
    \A i \in 1..Len(network) :
        LET m == network[i].messages IN
        /\ Len(m) = 2
        /\ m[1].role = "system"
        /\ m[1].content = <<getitem(expert_roles, selected_expert)>>
        /\ m[2].role = "user"
        /\ m[2].content = user_question

C3_Witness ==
    /\ pc = "AwaitingResponse"
    /\ Len(network) = 1
    /\ selected_expert = "Historian"
    /\ user_question = <<"a">>

\* C4: with OPENAI_API_KEY unset or empty the run stops before the form: the
\* page holds the error alone, no widget was rendered, the button was never
\* pressed and no request was ever sent.
C4_NoKeyNoForm ==
    (api_key = None \/ api_key = "") =>
        /\ pc \in {"Start", "Stopped"}
        /\ \A i \in 1..Len(ui) : ui[i][1] \notin {"radio", "text_area", "button"}
        /\ (pc = "Stopped" => ui = <<KeyMissingError>>)
        /\ ~button
        /\ network = <<>>
        /\ sent = 0

C4_Witness == pc = "Stopped" /\ api_key = ""

\* the steps of the submission state machine.  AwaitingResponse and Returned
\* are both the machine's AwaitingResponse: the answer is not rendered yet.
C5_Step ==
    \/ pc = "Start" /\ pc' \in {"Idle", "Stopped"}
    \/ pc = "Idle" /\ pc' \in {"Idle", "Validating"}
    \/ pc = "Validating" /\ pc' = "Idle" /\ user_question = <<>> /\ Shown(Warning)'
    \/ pc = "Validating" /\ pc' = "AwaitingResponse" /\ user_question # <<>>
    \/ pc = "AwaitingResponse" /\ pc' = "Returned"
    \/ pc = "Returned" /\ pc' = "Rendered"
    \/ pc = "Rendered" /\ pc' = "Idle"

\* C5: a submission takes only the steps Idle -> Validating -> (Idle with the
\* warning | AwaitingResponse -> Rendered -> Idle), and every submission,
\* whatever its outcome, comes back to Idle.
C5_StateMachine ==
    /\ [][C5_Step]_vars
    /\ (InRun ~> (pc = "Idle"))

C5_Witness ==
    /\ pc = "Idle"
    /\ button
    /\ Shown(Written("Hello, adventurer."))
    /\ ~Shown(Spinner)

\* C6: when the endpoint returned a completion, the page ends with the heading
\* naming the selected persona, whose instruction was sent, followed by exactly
\* the text of the first choice; there is one heading, one answer and no error.
C6_RenderedAnswer ==
    (/\ pc = "Rendered"
     /\ outcome.kind = "response"
     /\ Len(outcome.choices) > 0
     /\ outcome.choices[1] # None) =>
        /\ Len(ui) >= 2
        /\ ui[Len(ui) - 1] = Subheader(selected_expert)
        /\ ui[Len(ui)] = Written(outcome.choices[1])
        /\ Count("subheader") = 1
        /\ Count("write") = 1
        /\ Count("error") = 0
        /\ system_message_for_llm = getitem(expert_roles, selected_expert)

C6_Witness ==
    /\ pc = "Rendered"
    /\ selected_expert = "Historian"
    /\ outcome.choices = <<"Hello, adventurer.", None>>
    /\ Shown(Written("Hello, adventurer."))

C7_CatalogInv ==
    pc \notin {"Start", "Stopped"} =>
        /\ keys(expert_roles) =
               <<"IT consultant", "Cooking expert", "Historian", "Career advisor">>
        /\ Cardinality(KeySet(expert_roles)) = 4
        /\ \A i \in 1..Len(expert_roles) : expert_roles[i][2] # ""
        /\ Count("radio") = 1
        /\ \A i \in 1..Len(ui) : ui[i][1] = "radio" => ui[i][2] = keys(expert_roles)
        /\ selected_expert \in KeySet(expert_roles)
        /\ ~Shown(Uncaught("KeyError"))

\* C7: the catalog holds the four persona names, unique and in their order,
\* each with a non-empty instruction; no step after the first run changes it;
\* the radio offers exactly its names, starts at the first one, and the
\* lookup of the selected persona never fails.
C7_Catalog ==
    /\ []C7_CatalogInv
    /\ [][/\ (pc = "Start" /\ pc' = "Idle") => selected_expert' = expert_roles'[1][1]
          /\ (pc # "Start") => expert_roles' = expert_roles]_vars

C7_Witness ==
    /\ pc = "AwaitingResponse"
    /\ selected_expert = "Career advisor"
    /\ system_message_for_llm = "You are a career advisor."

\* C8: a call of get_llm_response with the inputs of a remembered earlier call
\* sends the same request, and with the same answer of the endpoint returns the
\* same result, whatever runs lay between the two.
C8_Idempotent ==
    \A m \in memo :
        (/\ m.user_input = user_question
         /\ m.expert_system_message = system_message_for_llm) =>
            /\ \A i \in 1..Len(network) : network[i] = m.request
            /\ (pc \in {"Returned", "Rendered"} /\ m.outcome = outcome) =>
                   llm_answer = m.result

C8_Witness ==
    /\ pc = "AwaitingResponse"
    /\ \E m \in memo :
           /\ m.user_input = user_question
           /\ m.expert_system_message = system_message_for_llm
           /\ m.result = FailureString

\* what a call of get_llm_response leaves alone
CallFrame ==
    UNCHANGED <<api_key, expert_roles, selected_expert, user_question, button,
                system_message_for_llm>>

\* C9 as stated: in every outcome the call changes nothing but the network
\* and its result; in particular it renders nothing.
C9_NoSideEffects ==
    [][(pc = "AwaitingResponse" /\ pc' = "Returned") => (CallFrame /\ ui' = ui)]_vars

\* C9, amended: the call changes no stored state and, on success, renders
\* nothing; when the call raised or the response has no choices it appends one
\* error element carrying the exception to the page, and nothing else.
C9_SideEffects ==
    [][(pc = "AwaitingResponse" /\ pc' = "Returned") =>
          /\ CallFrame
          /\ network' = Tail(network)
          /\ ui' = IF outcome'.kind = "response" /\ Len(outcome'.choices) > 0
                     THEN ui
                     ELSE Append(ui, LlmError(Raised(outcome')))]_vars

C9_Witness ==
    /\ pc = "Returned"
    /\ outcome.kind = "raise"
    /\ ui[Len(ui)] = LlmError(outcome.error)
    /\ llm_answer = FailureString

\* C10: a submission that passes validation sends exactly one request, none
\* before validation and none again after a failure; at most one request is in
\* flight; and the submission ends with exactly one result on the page.
C10_OneRequest ==
    /\ Len(network) <= 1
    /\ pc \in {"Start", "Stopped"} => network = <<>> /\ sent = 0
    /\ pc = "Validating" => network = <<>> /\ sent = 0 /\ returned = 0
    /\ pc = "AwaitingResponse" =>
           Len(network) = 1 /\ sent = 1 /\ returned = 0 /\ Count("write") = 0
    /\ pc = "Returned" =>
           network = <<>> /\ sent = 1 /\ returned = 1 /\ Count("write") = 0
    /\ pc = "Rendered" =>
           network = <<>> /\ sent = 1 /\ returned = 1 /\ Count("write") = 1
    /\ pc = "Idle" =>
           /\ network = <<>>
           /\ sent = returned
           /\ button => /\ sent = (IF user_question # <<>> THEN 1 ELSE 0)
                        /\ Count("write") = sent
           /\ ~button => Count("write") = 0

C10_Witness ==
    /\ pc = "Idle"
    /\ button
    /\ sent = 1
    /\ returned = 1
    /\ Shown(Written(FailureString))

====
